---- MODULE Spec2Model ----
(***************************************************************************)
(* Model of socketrpc-gen: the runtime behaviour of the bindings it        *)
(* generates (factory instance, handler listeners, acknowledged calls)     *)
(* and the contract resolver that flattens an interface-extension graph.   *)
(***************************************************************************)
EXTENDS Integers, Sequences, FiniteSets, TLC

\* ------------------------------------------------------------------------
\* Bounds of the model
\* ------------------------------------------------------------------------
MaxRegs == 2      \* handler registrations made on the socket
MaxDisposals == 2 \* calls of dispose()
MaxRuns == 1      \* calls of one returned unsubscribe function
MaxEvents == 2    \* events the peer sends to this socket
MaxTimeout == 1   \* largest timeout (in ticks) a caller passes
MaxGenRuns == 2   \* runs of the generator
MaxIfaces == 3    \* interface declarations in the contract files
MaxBases == 2     \* interfaces one declaration extends
MaxFiles == 3     \* source files in the contract's import graph
MaxWatchRuns == 3 \* generation runs one watch session starts

\* ------------------------------------------------------------------------
\* The sample contract the bindings are generated for
\* ------------------------------------------------------------------------
\* handleFunctions of generateFactoryFunction: one void and one non-void member
HandleFunctions ==
  << [name |-> "notify", isVoid |-> TRUE],
     [name |-> "ping", isVoid |-> FALSE] >>

MemberNames == { HandleFunctions[i].name : i \in 1..Len(HandleFunctions) }

IsVoid(m) == \E i \in 1..Len(HandleFunctions) :
                HandleFunctions[i].name = m /\ HandleFunctions[i].isVoid

\* ------------------------------------------------------------------------
\* JavaScript values, as far as the generated code inspects them
\*   t       : the value's type ("undefined", "null", "string", "object",
\*             "Error", "function")
\*   v       : the text of a string primitive
\*   message, code, data : the property of that name: "absent", "undefined"
\*             (present, value undefined), "num" (present, not a string) or
\*             the string it holds
\* ------------------------------------------------------------------------
Mk(t, v, message, code, data) ==
  [t |-> t, v |-> v, message |-> message, code |-> code, data |-> data]

Undefined == Mk("undefined", "", "absent", "absent", "absent")
Null == Mk("null", "", "absent", "absent", "absent")
StrVal(s) == Mk("string", s, "absent", "absent", "absent")
ErrorObj(msg) == Mk("Error", "", msg, "absent", "absent")

IsStringField(f) == f \notin {"absent", "undefined", "num"}

\* !!x
Truthy(x) == /\ x.t \notin {"undefined", "null"}
             /\ ~(x.t = "string" /\ x.v = "")

\* typeof x === 'object'
TypeofObject(x) == x.t \in {"object", "Error", "null"}

\* 'p' in x, for an object x
HasCode(x) == x.code # "absent"
HasMessage(x) == x.message # "absent"

\* String(x) for a value that is not an Error
StringOf(x) ==
  CASE x.t = "string" -> x.v
    [] x.t = "undefined" -> "undefined"
    [] x.t = "null" -> "null"
    [] x.t = "function" -> "function () {}"
    [] OTHER -> "[object Object]"

\* { message: e instanceof Error ? e.message : String(e),
\*   code: 'INTERNAL_ERROR', data: undefined }
createRpcErrorExpression(e) ==
  Mk("object", "",
     IF e.t = "Error" THEN e.message ELSE StringOf(e),
     "INTERNAL_ERROR", "undefined")

\* the test the void listener applies to the handler's result
VoidResultIsError(r) ==
  Truthy(r) /\ TypeofObject(r) /\ HasCode(r) /\ HasMessage(r)

\* the emitted type guard isRpcError
isRpcError(obj) ==
  Truthy(obj) /\ IsStringField(obj.message) /\ IsStringField(obj.code)

\* values a user handler may resolve with
BusinessError == Mk("object", "", "denied", "FORBIDDEN", "absent")
\* an object with a message and a numeric code, such as a DOMException
LooseError == Mk("object", "", "aborted", "num", "absent")
VoidResults == { Undefined, BusinessError, LooseError }
AckResults == { StrVal("pong"), BusinessError }

\* values a user handler (or the transport) may raise
Raised == { ErrorObj("boom"), StrVal("bad") }

\* the arguments the n-th event carries
ArgsOf(n) == 100 + n

\* ------------------------------------------------------------------------
\* State
\* ------------------------------------------------------------------------
VARIABLES
  listeners,      \* the socket's listeners, in registration order
  nextId,         \* identity of the next listener closure
  unsubscribers,  \* the factory instance's unsubscribers array
  disposed,       \* the factory instance's _disposed flag
  held,           \* unsubscribe functions returned by standalone registrations
  ran,            \* how often the unregistration of each listener has run
  disposals,      \* number of dispose() calls, or of disconnects, so far
  lastOp,         \* the last API call and how it ended
  calls,          \* non-void calls issued by the peer
  wire,           \* events in flight to this socket, in sending order
  sent,           \* names of the events the peer has sent
  invs,           \* listener invocations in progress
  acks,           \* acknowledgments in flight to the peer
  out,            \* 'rpcError' events published by listeners, in flight
  unhandled,      \* whether a listener's own promise has rejected
  project,        \* the interface declarations the generator reads
  sigs,           \* the signatures extracted from the root contract
  extracted,      \* whether the extraction has run
  walk,           \* the base-interface walk: its call stack and closure state
  typeRefs,       \* the source files, the type names used, the imports generated
  watcher,        \* watch mode: the process, the pending change, the runs under way
  input,          \* the input file: whether it exists, the contracts it declares
  config,         \* the configuration the user passes to the generator
  files,          \* the files of the output directory
  exit,           \* exit status of the last generation run
  runs,           \* number of generation runs so far
  fresh           \* successful runs since the input or a module last changed

vars == << listeners, nextId, unsubscribers, disposed, held, ran, disposals, lastOp,
           calls, wire, sent, invs, acks, out, unhandled,
           project, sigs, extracted, walk, typeRefs, watcher, watcher, input, config, files, exit,
           runs, fresh >>

apiVars == << listeners, nextId, unsubscribers, disposed, held, ran, disposals, lastOp >>
netVars == << calls, wire, sent, invs, acks, out, unhandled >>
pkgVars == << typeRefs, watcher, input, config, files, exit, runs, fresh >>
genVars == << project, sigs, extracted, walk, pkgVars >>

NoOp == [op |-> "none", threw |-> FALSE]

\* a project with a single empty root contract
EmptyProject ==
  [name |-> [i \in 1..MaxIfaces |-> "ServerFunctions"],
   bases |-> [i \in 1..MaxIfaces |-> {}],
   props |-> [i \in 1..MaxIfaces |-> << >>]]

RuntimeInit ==
  /\ listeners = << >>
  /\ nextId = 1
  /\ unsubscribers = << >>
  /\ disposed = FALSE
  /\ held = {}
  /\ ran = [i \in 1..MaxRegs |-> 0]
  /\ disposals = 0
  /\ lastOp = NoOp
  /\ calls = << >>
  /\ wire = << >>
  /\ sent = << >>
  /\ invs = {}
  /\ acks = {}
  /\ out = << >>
  /\ unhandled = FALSE

\* no input file, an empty output directory, no run made
NoFiles ==
  [package |-> [kind |-> "absent"], tsconfig |-> [kind |-> "absent"],
   types |-> [kind |-> "absent"], client |-> [kind |-> "absent"],
   server |-> [kind |-> "absent"]]

\* getAllBaseInterfaces not called yet
WalkIdle ==
  [st |-> "idle", stack |-> << >>, visited |-> {}, baseInterfaces |-> << >>,
   expanded |-> << >>]

\* no source file read, no import generated
NoTypeRefs ==
  [graph |-> [base |-> << >>, declares |-> << >>, imports |-> << >>],
   used |-> {}, imports |-> << >>, done |-> FALSE]

\* the generator was not started in watch mode
NotWatching == [st |-> "off", changed |-> FALSE, saving |-> << >>, failed |-> FALSE]

GeneratorIdle ==
  /\ walk = WalkIdle
  /\ typeRefs = NoTypeRefs
  /\ watcher = NotWatching
  /\ input = [exists |-> FALSE, client |-> FALSE, server |-> FALSE]
  /\ config = [hasTimeout |-> FALSE, defaultTimeout |-> 0]
  /\ files = NoFiles
  /\ exit = -1
  /\ runs = 0
  /\ fresh = 0

Init ==
  /\ RuntimeInit
  /\ project = EmptyProject
  /\ sigs = << >>
  /\ extracted = FALSE
  /\ GeneratorIdle

\* ------------------------------------------------------------------------
\* The socket's listener table
\* ------------------------------------------------------------------------
RECURSIVE FirstIndex(_, _, _, _)
FirstIndex(ls, event, id, i) ==
  IF i > Len(ls) THEN 0
  ELSE IF ls[i].event = event /\ ls[i].id = id THEN i
  ELSE FirstIndex(ls, event, id, i + 1)

\* socket.on(event, listener)
SocketOn(ls, event, id, owner) ==
  Append(ls, [id |-> id, event |-> event, owner |-> owner])

\* socket.off that removes the first listener of the event, whichever it is
SocketOffAnyListener(ls, event, id) ==
  LET k == IF \E i \in 1..Len(ls) : ls[i].event = event
             THEN CHOOSE i \in 1..Len(ls) :
                    /\ ls[i].event = event
                    /\ \A j \in 1..(i - 1) : ls[j].event # event
             ELSE 0
  IN IF k = 0 THEN ls
     ELSE [i \in 1..(Len(ls) - 1) |-> IF i < k THEN ls[i] ELSE ls[i + 1]]

\* socket.off(event, listener): removes that listener from the event's list
SocketOff(ls, event, id) ==
  LET k == FirstIndex(ls, event, id, 1)
  IN IF k = 0 THEN ls
     ELSE [i \in 1..(Len(ls) - 1) |-> IF i < k THEN ls[i] ELSE ls[i + 1]]

ListenerIds(ls) == { ls[i].id : i \in 1..Len(ls) }
ListenersOf(ls, event) == SelectSeq(ls, LAMBDA l : l.event = event)

\* ------------------------------------------------------------------------
\* Factory instance: createRpcClient / createRpcServer
\* ------------------------------------------------------------------------
\* a checkDisposed() that never throws
checkDisposedNever(d) == FALSE

\* checkDisposed(): throws when the instance has been disposed
checkDisposed(d) == d

\* a registration that installs its listener and collects no unsubscriber
FactoryRegisterNoPush(event) ==
  /\ IF checkDisposed(disposed)
       THEN /\ lastOp' = [op |-> "handle", threw |-> TRUE]
            /\ UNCHANGED << listeners, nextId, unsubscribers >>
       ELSE /\ nextId <= MaxRegs
            /\ listeners' = SocketOn(listeners, event, nextId, "factory")
            /\ nextId' = nextId + 1
            /\ lastOp' = [op |-> "handle", threw |-> FALSE]
            /\ UNCHANGED unsubscribers
  /\ UNCHANGED << disposed, held, ran, disposals >>
  /\ UNCHANGED << netVars, genVars >>

\* handle.<name>(handler) and handle.rpcError(handler)
FactoryRegister(event) ==
  /\ IF checkDisposed(disposed)
       THEN /\ lastOp' = [op |-> "handle", threw |-> TRUE]
            /\ UNCHANGED << listeners, nextId, unsubscribers >>
       ELSE /\ nextId <= MaxRegs
            /\ listeners' = SocketOn(listeners, event, nextId, "factory")
            /\ unsubscribers' = Append(unsubscribers, [id |-> nextId, event |-> event])
            /\ nextId' = nextId + 1
            /\ lastOp' = [op |-> "handle", threw |-> FALSE]
  /\ UNCHANGED << disposed, held, ran, disposals >>
  /\ UNCHANGED << netVars, genVars >>

FactoryHandle == \E m \in MemberNames : FactoryRegister(m)

FactoryHandleRpcError == FactoryRegister("rpcError")

\* a teardown loop that runs the first unsubscriber only
RunAllFirstOnly(us, ls) ==
  IF us = << >> THEN ls
  ELSE SocketOff(ls, Head(us).event, Head(us).id)

\* a teardown that takes every listener of the instance's event names off
RunAllRemovesEvent(us, ls) ==
  SelectSeq(ls, LAMBDA l : \A k \in 1..Len(us) : us[k].event # l.event)

\* unsubscribers.forEach(fn => fn())
RECURSIVE RunAll(_, _)
RunAll(us, ls) ==
  IF us = << >> THEN ls
  ELSE RunAll(Tail(us), SocketOff(ls, Head(us).event, Head(us).id))

CountRuns(us, r) ==
  [i \in DOMAIN r |->
     r[i] + Cardinality({ k \in 1..Len(us) : us[k].id = i })]

\* a dispose() without the disposed guard that keeps its unsubscribers
DisposeEffectNoGuard(d, us, ls, r) ==
  [disposed |-> TRUE, unsubscribers |-> us,
   listeners |-> RunAll(us, ls), ran |-> CountRuns(us, r)]

\* what dispose() does to (disposed, unsubscribers, listeners, ran)
DisposeEffect(d, us, ls, r) ==
  IF d THEN [disposed |-> d, unsubscribers |-> us, listeners |-> ls, ran |-> r]
  ELSE [disposed |-> TRUE, unsubscribers |-> << >>,
        listeners |-> RunAll(us, ls), ran |-> CountRuns(us, r)]

\* dispose()
Dispose ==
  /\ disposals < MaxDisposals
  /\ disposals' = disposals + 1
  /\ LET e == DisposeEffect(disposed, unsubscribers, listeners, ran)
     IN /\ disposed' = e.disposed
        /\ unsubscribers' = e.unsubscribers
        /\ listeners' = e.listeners
        /\ ran' = e.ran
  /\ lastOp' = [op |-> "dispose", threw |-> FALSE]
  /\ UNCHANGED << nextId, held >>
  /\ UNCHANGED << netVars, genVars >>

\* ------------------------------------------------------------------------
\* Standalone registrations: handle<Name>(socket, handler), handleRpcError
\* ------------------------------------------------------------------------
StandaloneRegister(event) ==
  /\ nextId <= MaxRegs
  /\ listeners' = SocketOn(listeners, event, nextId, "standalone")
  /\ held' = held \cup { [id |-> nextId, event |-> event] }
  /\ nextId' = nextId + 1
  /\ lastOp' = [op |-> "register", threw |-> FALSE]
  /\ UNCHANGED << unsubscribers, disposed, ran, disposals >>
  /\ UNCHANGED << netVars, genVars >>

StandaloneHandle == \E m \in MemberNames : StandaloneRegister(m)

StandaloneHandleRpcError == StandaloneRegister("rpcError")

\* calling the function a standalone registration returned
Unsubscribe ==
  \E u \in held :
    /\ ran[u.id] < MaxRuns
    /\ listeners' = SocketOff(listeners, u.event, u.id)
    /\ ran' = [ran EXCEPT ![u.id] = @ + 1]
    /\ lastOp' = [op |-> "unsubscribe", threw |-> FALSE]
    /\ UNCHANGED << nextId, unsubscribers, disposed, held, disposals >>
    /\ UNCHANGED << netVars, genVars >>

\* ------------------------------------------------------------------------
\* Call operations (run by the peer, which holds the other side's bindings)
\* ------------------------------------------------------------------------
TimedOut == ErrorObj("operation has timed out")

\* a non-void call without the try/catch: a failed wait rejects the promise
CallOutcomeNoCatch(fulfilled, value) ==
  IF fulfilled
    THEN [state |-> "resolved", result |-> value]
    ELSE [state |-> "rejected", result |-> value]

\* the generated non-void call: try { return await emitWithAck } catch { ... }
\* given how socket.timeout(timeout).emitWithAck(...) settled
CallOutcome(fulfilled, value) ==
  IF fulfilled
    THEN [state |-> "resolved", result |-> value]
    ELSE [state |-> "resolved", result |-> createRpcErrorExpression(value)]

\* the promise of call c settles; raw is what emitWithAck settled with
Settle(c, fulfilled, value, via) ==
  LET o == CallOutcome(fulfilled, value)
  IN [calls EXCEPT ![c] = [@ EXCEPT !.state = o.state, !.result = o.result,
                                    !.via = via, !.raw = value, !.left = 0]]

\* the event the peer's n-th emit puts on the connection
Packet(event, call) ==
  [event |-> event, args |-> ArgsOf(Len(sent) + 1), call |-> call,
   n |-> Len(sent) + 1]

\* <target>.<name>(args, timeout) of a non-void member
CallNonVoid ==
  \E m \in MemberNames, t \in 1..MaxTimeout :
    /\ ~IsVoid(m)
    /\ Len(sent) < MaxEvents
    /\ sent' = Append(sent, m)
    /\ calls' = Append(calls, [member |-> m, args |-> ArgsOf(Len(sent) + 1),
                               left |-> t, state |-> "pending",
                               result |-> Undefined, via |-> "none",
                               raw |-> Undefined])
    /\ wire' = Append(wire, Packet(m, Len(calls) + 1))
    /\ UNCHANGED << invs, acks, out, unhandled >>
    /\ UNCHANGED << apiVars, genVars >>

\* <target>.<name>(args) of a void member: socket.emit only
CallVoid ==
  \E m \in MemberNames :
    /\ IsVoid(m)
    /\ Len(sent) < MaxEvents
    /\ sent' = Append(sent, m)
    /\ wire' = Append(wire, Packet(m, 0))
    /\ UNCHANGED << calls, invs, acks, out, unhandled >>
    /\ UNCHANGED << apiVars, genVars >>

\* the peer's own listeners publish a failure notification to this socket
PeerRpcError ==
  /\ Len(sent) < MaxEvents
  /\ sent' = Append(sent, "rpcError")
  /\ wire' = Append(wire, Packet("rpcError", 0))
  /\ UNCHANGED << calls, invs, acks, out, unhandled >>
  /\ UNCHANGED << apiVars, genVars >>

\* an acknowledgment wait without socket.timeout(): it never times out
TimeoutFireNever(c) == FALSE

\* the acknowledgment wait of a pending call times out
TimeoutFire(c) ==
  /\ c \in 1..Len(calls)
  /\ calls[c].state = "pending"
  /\ calls[c].left = 0
  /\ calls' = Settle(c, FALSE, TimedOut, "timeout")
  /\ UNCHANGED << wire, sent, invs, acks, out, unhandled >>
  /\ UNCHANGED << apiVars, genVars >>

Timeout == \E c \in 1..Len(calls) : TimeoutFire(c)

\* time passes for every pending call
Tick ==
  /\ \E c \in 1..Len(calls) : calls[c].state = "pending"
  /\ \A c \in 1..Len(calls) : calls[c].state = "pending" => calls[c].left > 0
  /\ calls' = [c \in 1..Len(calls) |->
                 IF calls[c].state = "pending"
                   THEN [calls[c] EXCEPT !.left = @ - 1]
                   ELSE calls[c]]
  /\ UNCHANGED << wire, sent, invs, acks, out, unhandled >>
  /\ UNCHANGED << apiVars, genVars >>

\* the transport rejects the emit of a pending call
TransportReject ==
  \E c \in 1..Len(calls), e \in Raised :
    /\ calls[c].state = "pending"
    /\ calls' = Settle(c, FALSE, e, "reject")
    /\ UNCHANGED << wire, sent, invs, acks, out, unhandled >>
    /\ UNCHANGED << apiVars, genVars >>

\* an acknowledgment that settles the oldest pending call, whichever call
\* it answers
AckArriveUncorrelated ==
  \E k \in acks :
    /\ acks' = acks \ {k}
    /\ calls' = IF \E c \in 1..Len(calls) : calls[c].state = "pending"
                  THEN Settle(CHOOSE c \in 1..Len(calls) :
                                /\ calls[c].state = "pending"
                                /\ \A d \in 1..(c - 1) : calls[d].state # "pending",
                              TRUE, k.value, "ack")
                  ELSE calls
    /\ UNCHANGED << wire, sent, invs, out, unhandled >>
    /\ UNCHANGED << apiVars, genVars >>

\* an acknowledgment reaches the caller; only a pending call takes it
AckArrive ==
  \E k \in acks :
    /\ acks' = acks \ {k}
    /\ calls' = IF calls[k.call].state = "pending"
                  THEN Settle(k.call, TRUE, k.value, "ack")
                  ELSE calls
    /\ UNCHANGED << wire, sent, invs, out, unhandled >>
    /\ UNCHANGED << apiVars, genVars >>

\* a published 'rpcError' event reaches the peer
PeerReceivesRpcError ==
  /\ out # << >>
  /\ out' = Tail(out)
  /\ UNCHANGED << calls, wire, sent, invs, acks, unhandled >>
  /\ UNCHANGED << apiVars, genVars >>

\* ------------------------------------------------------------------------
\* Listeners installed by the registrations
\* ------------------------------------------------------------------------
\* the invocation a listener starts for an event: it calls the user handler
\* with the event's arguments and awaits it
Invocation(l, w) ==
  [lid |-> l.id, owner |-> l.owner, event |-> w.event, args |-> w.args,
   call |-> w.call, n |-> w.n, st |-> "awaiting", raised |-> FALSE,
   value |-> Undefined, fails |-> 0]

\* the next event reaches the socket: every listener of that name is invoked
Deliver ==
  /\ wire # << >>
  /\ LET w == Head(wire)
         ls == ListenersOf(listeners, w.event)
     IN invs' = invs \cup { Invocation(ls[i], w) : i \in 1..Len(ls) }
  /\ wire' = Tail(wire)
  /\ UNCHANGED << calls, sent, acks, out, unhandled >>
  /\ UNCHANGED << apiVars, genVars >>

\* how many of the first invocations of an acknowledgment callback throw
\* (the packet cannot be encoded, the callback is a wrapper that raises)
CallbackFaults == { 0, 1, 2 }

\* what the callback throws when it fails
CallbackError == ErrorObj("ack failed")

\* the user handler of a running invocation resolves or raises; faults are
\* the ways the acknowledgment callback of the invocation may then behave
HandlerSettlesWith(faults) ==
  \E i \in invs, raised \in BOOLEAN :
    \E value \in (IF raised THEN Raised
                  ELSE IF i.event = "rpcError" THEN { Undefined }
                  ELSE IF IsVoid(i.event) THEN VoidResults ELSE AckResults) :
      \E f \in (IF i.event = "rpcError" \/ IsVoid(i.event) THEN { 0 } ELSE faults) :
        /\ i.st = "awaiting"
        /\ invs' = (invs \ {i}) \cup
                     { [i EXCEPT !.st = "settled", !.raised = raised,
                                 !.value = value, !.fails = f] }
        /\ UNCHANGED << calls, wire, sent, acks, out, unhandled >>
        /\ UNCHANGED << apiVars, genVars >>

\* the callback delivers every acknowledgment it is given
HandlerSettles == HandlerSettlesWith({ 0 })

\* the callback may throw
HandlerSettlesCallbackFails == HandlerSettlesWith(CallbackFaults)

\* a void listener without the try/catch: a raised condition escapes
VoidListenerRethrow(raised, value) ==
  IF raised
    THEN [emits |-> << >>, threw |-> TRUE]
  ELSE IF VoidResultIsError(value)
    THEN [emits |-> << value >>, threw |-> FALSE]
  ELSE [emits |-> << >>, threw |-> FALSE]

\* body of the void listener once the user handler has settled: the values
\* it emits on 'rpcError' and whether the listener itself ends by raising
VoidListener(raised, value) ==
  IF raised
    THEN [emits |-> << createRpcErrorExpression(value) >>, threw |-> FALSE]
  ELSE IF VoidResultIsError(value)
    THEN [emits |-> << value >>, threw |-> FALSE]
  ELSE [emits |-> << >>, threw |-> FALSE]

\* an acknowledgment listener without the try/catch
AckListenerRethrow(raised, value, fails) ==
  IF raised
    THEN [cbs |-> << >>, threw |-> TRUE]
    ELSE [cbs |-> << value >>, threw |-> fails >= 1]

\* body of the acknowledgment listener once the user handler has settled:
\* the arguments of its callback invocations, of which the first `fails`
\* throw, and whether the listener itself ends by raising. A throw of
\* callback(result) inside try lands in catch, which calls callback again.
AckListener(raised, value, fails) ==
  IF raised
    THEN [cbs |-> << createRpcErrorExpression(value) >>, threw |-> fails >= 1]
  ELSE IF fails = 0
    THEN [cbs |-> << value >>, threw |-> FALSE]
  ELSE [cbs |-> << value, createRpcErrorExpression(CallbackError) >>,
        threw |-> fails >= 2]

\* body of an 'rpcError' listener: the instance's listener calls the handler
\* directly, the standalone one awaits it inside try/catch
RpcErrorListener(owner, raised) ==
  [emits |-> << >>, threw |-> (raised /\ owner = "factory")]

\* a listener that does nothing more once its instance has been disposed
ListenerResumesUnlessDisposed ==
  \E i \in invs :
    /\ i.st = "settled"
    /\ invs' = invs \ {i}
    /\ IF disposed /\ i.owner = "factory"
         THEN UNCHANGED << out, acks, unhandled >>
       ELSE IF i.event = "rpcError"
         THEN /\ unhandled' = (unhandled \/ RpcErrorListener(i.owner, i.raised).threw)
              /\ UNCHANGED << out, acks >>
       ELSE IF IsVoid(i.event)
         THEN /\ out' = out \o VoidListener(i.raised, i.value).emits
              /\ UNCHANGED << acks, unhandled >>
       ELSE /\ acks' = acks \cup
                 { [call |-> i.call,
                    value |-> AckListener(i.raised, i.value, i.fails).cbs[1]] }
            /\ UNCHANGED << out, unhandled >>
    /\ UNCHANGED << calls, wire, sent >>
    /\ UNCHANGED << apiVars, genVars >>

\* the listener of a settled invocation resumes after its await
ListenerResumes ==
  \E i \in invs :
    /\ i.st = "settled"
    /\ invs' = invs \ {i}
    /\ IF i.event = "rpcError"
         THEN /\ unhandled' = (unhandled \/ RpcErrorListener(i.owner, i.raised).threw)
              /\ UNCHANGED << out, acks >>
       ELSE IF IsVoid(i.event)
         THEN LET vl == VoidListener(i.raised, i.value)
              IN /\ out' = out \o vl.emits
                 /\ unhandled' = (unhandled \/ vl.threw)
                 /\ UNCHANGED acks
       ELSE LET al == AckListener(i.raised, i.value, i.fails)
            IN /\ acks' = acks \cup { [call |-> i.call, value |-> al.cbs[k]] :
                                        k \in (i.fails + 1)..Len(al.cbs) }
               /\ unhandled' = (unhandled \/ al.threw)
               /\ UNCHANGED out
    /\ UNCHANGED << calls, wire, sent >>
    /\ UNCHANGED << apiVars, genVars >>

\* ------------------------------------------------------------------------
\* Specifications of the running bindings
\* ------------------------------------------------------------------------
\* registration, teardown and event dispatch on one socket
Next ==
  \/ FactoryHandle
  \/ FactoryHandleRpcError
  \/ Dispose
  \/ StandaloneHandle
  \/ StandaloneHandleRpcError
  \/ Unsubscribe
  \/ CallVoid
  \/ PeerRpcError
  \/ Deliver

Spec == Init /\ [][Next]_vars

\* an instance on which handle.<name> has been called once for every member
RpcInit ==
  /\ listeners = [i \in 1..Len(HandleFunctions) |->
                    [id |-> i, event |-> HandleFunctions[i].name, owner |-> "factory"]]
  /\ nextId = Len(HandleFunctions) + 1
  /\ unsubscribers = [i \in 1..Len(HandleFunctions) |->
                        [id |-> i, event |-> HandleFunctions[i].name]]
  /\ disposed = FALSE
  /\ held = {}
  /\ ran = [i \in 1..MaxRegs |-> 0]
  /\ disposals = 0
  /\ lastOp = [op |-> "handle", threw |-> FALSE]
  /\ calls = << >>
  /\ wire = << >>
  /\ sent = << >>
  /\ invs = {}
  /\ acks = {}
  /\ out = << >>
  /\ unhandled = FALSE
  /\ project = EmptyProject
  /\ sigs = << >>
  /\ extracted = FALSE
  /\ GeneratorIdle

\* calls, listeners and acknowledgments between the peer and this socket
RpcNext ==
  \/ CallNonVoid
  \/ CallVoid
  \/ Timeout
  \/ Tick
  \/ TransportReject
  \/ AckArrive
  \/ PeerReceivesRpcError
  \/ Deliver
  \/ HandlerSettles
  \/ ListenerResumes

RpcSpec == RpcInit /\ [][RpcNext]_vars

\* calls against a responder whose handlers never settle, so that no
\* acknowledgment is ever sent
NoAckNext ==
  \/ CallNonVoid
  \/ CallVoid
  \/ Timeout
  \/ Tick
  \/ TransportReject
  \/ Deliver

\* time passes and the timers of the caller's runtime fire
LiveSpec == RpcInit /\ [][NoAckNext]_vars /\ WF_vars(Tick) /\ WF_vars(Timeout)

\* calls answered by listeners whose acknowledgment callback may throw
AckNext ==
  \/ CallNonVoid
  \/ CallVoid
  \/ Tick
  \/ Timeout
  \/ AckArrive
  \/ Deliver
  \/ HandlerSettlesCallbackFails
  \/ ListenerResumes

AckSpec == RpcInit /\ [][AckNext]_vars

\* calls answered by an instance that may be disposed at any moment
TeardownNext ==
  \/ CallNonVoid
  \/ CallVoid
  \/ AckArrive
  \/ Deliver
  \/ HandlerSettles
  \/ ListenerResumes
  \/ Dispose

TeardownSpec == RpcInit /\ [][TeardownNext]_vars

\* ------------------------------------------------------------------------
\* Contract resolver
\* ------------------------------------------------------------------------
\* An interface declaration i of the project has a name (project.name[i]; two
\* declarations in different files, or merged declarations, may share it),
\* the declarations its extends clause resolves to (project.bases[i], visited
\* in ascending order) and its property signatures (project.props[i]).
\* Declaration 1 is the root contract found in the entry file.
Ifaces == 1..MaxIfaces
Root == 1

Letters ==
  { "a", "b", "c", "d", "e", "f", "g", "h", "i", "j", "k", "l", "m",
    "n", "o", "p", "q", "r", "s", "t", "u", "v", "w", "x", "y", "z",
    "A", "B", "C", "D", "E", "F", "G", "H", "I", "J", "K", "L", "M",
    "N", "O", "P", "Q", "R", "S", "T", "U", "V", "W", "X", "Y", "Z" }
Digits == { "0", "1", "2", "3", "4", "5", "6", "7", "8", "9" }

\* /^[a-zA-Z_$][a-zA-Z0-9_$]*$/.test(name), a name being its characters
isValidJavaScriptIdentifier(name) ==
  /\ Len(name) >= 1
  /\ name[1] \in Letters \cup { "_", "$" }
  /\ \A k \in 2..Len(name) : name[k] \in Letters \cup Digits \cup { "_", "$" }

\* the ascending sequence of a set of declarations
RECURSIVE InOrder(_)
InOrder(S) ==
  IF S = {} THEN << >>
  ELSE LET m == CHOOSE x \in S : \A y \in S : x <= y
       IN << m >> \o InOrder(S \ {m})

\* a guard that never finds the interface visited
alreadyVisitedNever(visited, ifaceName) == FALSE

\* if (visited.has(ifaceName)) return
alreadyVisited(visited, ifaceName) == ifaceName \in visited

\* collectBases(iface) with its closure state st = (visited, baseInterfaces)
RECURSIVE collectBases(_, _, _)
RECURSIVE collectEachBase(_, _, _)
collectBases(p, st, iface) ==
  IF alreadyVisited(st.visited, p.name[iface]) THEN st
  ELSE collectEachBase(p, [st EXCEPT !.visited = @ \cup { p.name[iface] }],
                       InOrder(p.bases[iface]))

\* baseTypes.forEach: push the base declaration, then collect its bases
collectEachBase(p, st, bs) ==
  IF bs = << >> THEN st
  ELSE collectEachBase(p,
         collectBases(p, [st EXCEPT !.baseInterfaces = Append(@, Head(bs))], Head(bs)),
         Tail(bs))

getAllBaseInterfaces(p, iface) ==
  collectBases(p, [visited |-> {}, baseInterfaces |-> << >>], iface).baseInterfaces

\* an isVoid that holds for every return-type text that denotes no value
isVoidOfNoValue(returnTypeString) ==
  returnTypeString \in { "void", "undefined", "Promise<void>" }

\* const isVoid = returnTypeString === "void"
isVoidOf(returnTypeString) == returnTypeString = "void"

\* an extraction that takes every function-typed property, whatever its name
extractSignatureFromPropertyAnyName(property, processedNames) ==
  IF property.name \in processedNames THEN << >>
  ELSE IF ~property.fn THEN << >>
  ELSE << [name |-> property.name, params |-> property.params,
           returnType |-> property.ret, isVoid |-> isVoidOf(property.ret)] >>

\* the signature of a property, or << >> when the property is skipped
extractSignatureFromProperty(property, processedNames) ==
  IF property.name \in processedNames THEN << >>
  ELSE IF ~property.fn THEN << >>
  ELSE IF ~isValidJavaScriptIdentifier(property.name) THEN << >>
  ELSE << [name |-> property.name, params |-> property.params,
           returnType |-> property.ret, isVoid |-> isVoidOf(property.ret)] >>

\* iface.getProperties().forEach over acc = (signatures, processedNames)
RECURSIVE extractFromProperties(_, _)
extractFromProperties(props, acc) ==
  IF props = << >> THEN acc
  ELSE LET e == extractSignatureFromProperty(Head(props), acc.processedNames)
       IN extractFromProperties(Tail(props),
            IF e = << >> THEN acc
            ELSE [signatures |-> acc.signatures \o e,
                  processedNames |-> acc.processedNames \cup { e[1].name }])

\* allInterfaces.forEach
RECURSIVE extractFromInterfaces(_, _, _)
extractFromInterfaces(p, ifs, acc) ==
  IF ifs = << >> THEN acc
  ELSE extractFromInterfaces(p, Tail(ifs),
         extractFromProperties(p.props[Head(ifs)], acc))

extractFunctionSignatures(p, iface) ==
  LET allInterfaces == getAllBaseInterfaces(p, iface) \o << iface >>
  IN extractFromInterfaces(p, allInterfaces,
       [signatures |-> << >>, processedNames |-> {}]).signatures

\* property lists the declarations are drawn from
Ping == << "p", "i", "n", "g" >>
Log == << "l", "o", "g" >>
Status == << "s", "t", "a", "t", "u", "s" >>
Prop(name, fn, params, ret) ==
  [name |-> name, fn |-> fn, params |-> params, ret |-> ret]
PropLists ==
  << << Prop(Ping, TRUE, << "msg" >>, "string") >>,
     << Prop(Ping, TRUE, << >>, "void"), Prop(Log, TRUE, << "line" >>, "void") >>,
     << Prop(<< "v", "e", "r" >>, FALSE, << >>, "string"),
        Prop(<< "b", "a", "d", "-", "x" >>, TRUE, << >>, "void"),
        Prop(Status, TRUE, << >>, "Promise<void>") >>,
     << Prop(<< "s", "y", "n", "c" >>, TRUE, << >>, "undefined"),
        Prop(Status, TRUE, << "id" >>, "void | RpcError") >> >>

\* the properties of a declaration other than the root contract
PropsOf(i) == PropLists[(i % Len(PropLists)) + 1]

IfaceNames == { "ServerFunctions", "Base", "Core" }

\* the extends clauses: no interface extends itself, at most MaxBases bases
BaseMaps ==
  { bs \in [Ifaces -> SUBSET Ifaces] :
      \A i \in Ifaces : i \notin bs[i] /\ Cardinality(bs[i]) <= MaxBases }

\* the projects whose declarations take their names from names and whose
\* root contract takes its properties from one of the lists
Projects(names, lists) ==
  { [name |-> nm, bases |-> bs,
     props |-> [i \in Ifaces |-> IF i = Root THEN PropLists[k] ELSE PropsOf(i)]] :
      nm \in { f \in [Ifaces -> names] : f[Root] = "ServerFunctions" },
      bs \in BaseMaps,
      k \in lists }

ResolveInit ==
  /\ RuntimeInit
  /\ project \in Projects(IfaceNames, 1..Len(PropLists))
  /\ sigs = << >>
  /\ extracted = FALSE
  /\ GeneratorIdle

\* extractInterfacesFromFile: extract the signatures of the root contract
Extract ==
  /\ ~extracted
  /\ sigs' = extractFunctionSignatures(project, Root)
  /\ extracted' = TRUE
  /\ UNCHANGED << project, walk, pkgVars >>
  /\ UNCHANGED << apiVars, netVars >>

ResolveNext == Extract

ResolveSpec == ResolveInit /\ [][ResolveNext]_vars

\* ------------------------------------------------------------------------
\* The base-interface walk, one call, push and return at a time
\* ------------------------------------------------------------------------
\* a frame of collectBases(iface): the base declarations forEach has left
Frame(p, iface) == [iface |-> iface, todo |-> InOrder(p.bases[iface])]

\* collectBases(iface) is entered: the guard, then visited.add(ifaceName);
\* expanded lists the names whose base types have been read, in order
EnterCollectBases(p, w, iface) ==
  IF alreadyVisited(w.visited, p.name[iface]) THEN w
  ELSE [w EXCEPT !.visited = @ \cup { p.name[iface] },
                 !.expanded = Append(@, p.name[iface]),
                 !.stack = Append(@, Frame(p, iface))]

\* getAllBaseInterfaces(interfaceDeclaration) calls collectBases on it
WalkBegin ==
  /\ walk.st = "idle"
  /\ walk' = EnterCollectBases(project, [walk EXCEPT !.st = "walking"], Root)
  /\ UNCHANGED << project, sigs, extracted, pkgVars >>
  /\ UNCHANGED << apiVars, netVars >>

\* forEach takes the next base: baseInterfaces.push(baseInterface), then
\* collectBases(baseInterface)
WalkVisitBase ==
  /\ walk.st = "walking" /\ walk.stack # << >>
  /\ LET n == Len(walk.stack)
         top == walk.stack[n]
     IN /\ top.todo # << >>
        /\ walk' = EnterCollectBases(project,
                     [walk EXCEPT !.baseInterfaces = Append(@, Head(top.todo)),
                                  !.stack[n].todo = Tail(top.todo)],
                     Head(top.todo))
  /\ UNCHANGED << project, sigs, extracted, pkgVars >>
  /\ UNCHANGED << apiVars, netVars >>

\* forEach is through: collectBases returns to its caller
WalkReturn ==
  /\ walk.st = "walking" /\ walk.stack # << >>
  /\ walk.stack[Len(walk.stack)].todo = << >>
  /\ walk' = [walk EXCEPT !.stack = SubSeq(@, 1, Len(@) - 1)]
  /\ UNCHANGED << project, sigs, extracted, pkgVars >>
  /\ UNCHANGED << apiVars, netVars >>

\* return baseInterfaces
WalkEnd ==
  /\ walk.st = "walking" /\ walk.stack = << >>
  /\ walk' = [walk EXCEPT !.st = "done"]
  /\ UNCHANGED << project, sigs, extracted, pkgVars >>
  /\ UNCHANGED << apiVars, netVars >>

WalkInit ==
  /\ RuntimeInit
  /\ project \in Projects(IfaceNames \ { "Core" }, { 1 })
  /\ sigs = << >>
  /\ extracted = FALSE
  /\ GeneratorIdle

WalkNext ==
  \/ WalkBegin
  \/ WalkVisitBase
  \/ WalkReturn
  \/ WalkEnd

\* the walk is one synchronous call: it takes its next step while it has one
WalkSpec == WalkInit /\ [][WalkNext]_vars /\ WF_vars(WalkNext)

\* ------------------------------------------------------------------------
\* The generator: generateRpcPackage and the package it writes
\* ------------------------------------------------------------------------
\* declarations of a generator input: 1 is ServerFunctions, 2 is
\* ClientFunctions, 3 an interface one of the two extends
ClientRoot == 2

GenProjects ==
  { [name |-> << "ServerFunctions", "ClientFunctions", "Base" >>,
     bases |-> << {3}, {}, {} >>,
     props |-> << PropLists[1], PropLists[2], PropLists[3] >>],
    [name |-> << "ServerFunctions", "ClientFunctions", "Base" >>,
     bases |-> << {}, {3}, {} >>,
     props |-> << PropLists[4], PropLists[2], PropLists[3] >>] }

\* the input file is missing, or exists and declares some of the contracts
Inputs ==
  { i \in [exists : BOOLEAN, client : BOOLEAN, server : BOOLEAN] :
      ~i.exists => (~i.client /\ ~i.server) }

\* user configurations: with and without a defaultTimeout
Configs ==
  { [hasTimeout |-> FALSE, defaultTimeout |-> 0],
    [hasTimeout |-> TRUE, defaultTimeout |-> 1000] }

\* { defaultTimeout: 5000, errorLogger: undefined, ...userConfig }
resolveConfig(userConfig) ==
  [defaultTimeout |-> IF userConfig.hasTimeout THEN userConfig.defaultTimeout
                      ELSE 5000]

FileNames == { "package", "tsconfig", "types", "client", "server" }
ModuleNames == { "types", "client", "server" }
Absent == [kind |-> "absent"]
UserText == [kind |-> "user"]

\* a file header that carries the number of the run
FileHeaderStamped(name) == [name |-> name, stamp |-> runs]

\* the header comment of a generated module
FileHeader(name) == [name |-> name]

generatePackageJson(cfg) == [kind |-> "generated", header |-> [name |-> "package"]]
generateTsConfig == [kind |-> "generated", header |-> [name |-> "tsconfig"]]
generateTypesFile(cfg) == [kind |-> "generated", header |-> FileHeader("types")]

\* a call that always takes a timeout and waits for the acknowledgment
CallOperationAlwaysAck(func, cfg) ==
  [name |-> func.name,
   params |-> func.params \o << "timeout" >>,
   timeoutDefault |-> cfg.defaultTimeout,
   sends |-> "emitWithAck", awaitsAck |-> TRUE]

\* callFunctions.forEach: the call generated for one member
CallOperation(func, cfg) ==
  IF func.isVoid
    THEN [name |-> func.name, params |-> func.params, timeoutDefault |-> 0,
          sends |-> "emit", awaitsAck |-> FALSE]
    ELSE [name |-> func.name,
          params |-> func.params \o << "timeout" >>,
          timeoutDefault |-> cfg.defaultTimeout,
          sends |-> "emitWithAck", awaitsAck |-> TRUE]

\* handleFunctions.forEach: the registration generated for one member
HandleRegistration(func) ==
  [event |-> func.name, listener |-> IF func.isVoid THEN "void" ELSE "ack"]

\* the event name of the error channel, a name being its characters
RpcErrorName == << "r", "p", "c", "E", "r", "r", "o", "r" >>

RpcErrorRegistration == [event |-> RpcErrorName, listener |-> "rpcError"]

\* a side file whose call surface is built from this side's own contract
generateSideFileOwnCalls(side, clientFunctions, serverFunctions, cfg) ==
  LET callFunctions == IF side = "client" THEN serverFunctions ELSE clientFunctions
      handleFunctions == IF side = "client" THEN serverFunctions ELSE clientFunctions
  IN [kind |-> "generated", header |-> FileHeader(side),
      call |-> [k \in 1..Len(callFunctions) |-> CallOperation(callFunctions[k], cfg)],
      handle |-> [k \in 1..Len(handleFunctions) |->
                    HandleRegistration(handleFunctions[k])]
                 \o << RpcErrorRegistration >>]

\* generateSideFile: the client or server module
generateSideFile(side, clientFunctions, serverFunctions, cfg) ==
  LET callFunctions == IF side = "client" THEN clientFunctions ELSE serverFunctions
      handleFunctions == IF side = "client" THEN serverFunctions ELSE clientFunctions
  IN [kind |-> "generated", header |-> FileHeader(side),
      call |-> [k \in 1..Len(callFunctions) |-> CallOperation(callFunctions[k], cfg)],
      handle |-> [k \in 1..Len(handleFunctions) |->
                    HandleRegistration(handleFunctions[k])]
                 \o << RpcErrorRegistration >>]

\* extractInterfacesFromFile: clientFunctions are the members the client
\* calls (ServerFunctions), serverFunctions those the server calls
extractInterfacesFromFile(p) ==
  [clientFunctions |-> extractFunctionSignatures(p, Root),
   serverFunctions |-> extractFunctionSignatures(p, ClientRoot)]

\* an ensurePackageStructure that writes both files on every run
ensurePackageStructureAlways(fs, cfg) ==
  [fs EXCEPT !.package = generatePackageJson(cfg), !.tsconfig = generateTsConfig]

\* ensurePackageStructure: scaffold the manifest and the compiler
\* configuration where they do not exist
ensurePackageStructure(fs, cfg) ==
  [fs EXCEPT
     !.package = IF @.kind = "absent" THEN generatePackageJson(cfg) ELSE @,
     !.tsconfig = IF @.kind = "absent" THEN generateTsConfig ELSE @]

\* a run that scaffolds the package before it looks at the input
RunEffectScaffoldFirst(inp, p, userConfig, fs) ==
  LET cfg == resolveConfig(userConfig)
      ex == extractInterfacesFromFile(p)
      ok == inp.exists /\ inp.client /\ inp.server
      scaffolded == ensurePackageStructure(fs, cfg)
  IN IF ~ok THEN [exit |-> 1, files |-> scaffolded]
     ELSE [exit |-> 0,
           files |-> [scaffolded EXCEPT
              !.types = generateTypesFile(cfg),
              !.client = generateSideFile("client", ex.clientFunctions,
                                          ex.serverFunctions, cfg),
              !.server = generateSideFile("server", ex.clientFunctions,
                                          ex.serverFunctions, cfg)]]

\* what one run of generateRpcPackage does to the output directory, and the
\* status it ends with
RunEffect(inp, p, userConfig, fs) ==
  LET cfg == resolveConfig(userConfig)
      ex == extractInterfacesFromFile(p)
  IN IF ~inp.exists THEN [exit |-> 1, files |-> fs]
     ELSE IF ~inp.client \/ ~inp.server THEN [exit |-> 1, files |-> fs]
     ELSE [exit |-> 0,
           files |-> [ensurePackageStructure(fs, cfg) EXCEPT
              !.types = generateTypesFile(cfg),
              !.client = generateSideFile("client", ex.clientFunctions,
                                          ex.serverFunctions, cfg),
              !.server = generateSideFile("server", ex.clientFunctions,
                                          ex.serverFunctions, cfg)]]

\* generateRpcPackage(userConfig)
Generate ==
  /\ runs < MaxGenRuns
  /\ runs' = runs + 1
  /\ LET e == RunEffect(input, project, config, files)
     IN /\ exit' = e.exit
        /\ files' = e.files
        /\ fresh' = IF e.exit = 0 THEN fresh + 1 ELSE fresh
  /\ UNCHANGED << project, sigs, extracted, walk, typeRefs, watcher, input, config >>
  /\ UNCHANGED << apiVars, netVars >>

\* the user creates, removes or rewrites the input file
EditInput ==
  \E i \in Inputs \ {input} :
    /\ input' = i
    /\ fresh' = 0
    /\ UNCHANGED << project, sigs, extracted, walk, typeRefs, watcher, config, files, exit, runs >>
    /\ UNCHANGED << apiVars, netVars >>

\* the user changes the members of the contracts
EditContract ==
  \E p \in GenProjects \ {project} :
    /\ project' = p
    /\ fresh' = 0
    /\ UNCHANGED << sigs, extracted, walk, typeRefs, watcher, input, config, files, exit, runs >>
    /\ UNCHANGED << apiVars, netVars >>

\* the user runs the generator with another configuration
Configure ==
  \E c \in Configs \ {config} :
    /\ config' = c
    /\ fresh' = 0
    /\ UNCHANGED << project, sigs, extracted, walk, typeRefs, watcher, input, files, exit, runs >>
    /\ UNCHANGED << apiVars, netVars >>

\* the user rewrites or deletes a file of the output directory
UserEdits ==
  \E f \in FileNames, c \in { Absent, UserText } :
    /\ files[f] # c
    /\ files' = [files EXCEPT ![f] = c]
    /\ fresh' = IF f \in ModuleNames THEN 0 ELSE fresh
    /\ UNCHANGED << project, sigs, extracted, walk, typeRefs, watcher, input, config, exit, runs >>
    /\ UNCHANGED << apiVars, netVars >>

GenInit ==
  /\ RuntimeInit
  /\ project \in GenProjects
  /\ sigs = << >>
  /\ extracted = FALSE
  /\ walk = WalkIdle
  /\ typeRefs = NoTypeRefs
  /\ watcher = NotWatching
  /\ input \in Inputs
  /\ config \in Configs
  /\ files = NoFiles
  /\ exit = -1
  /\ runs = 0
  /\ fresh = 0

GenNext ==
  \/ Generate
  \/ EditInput
  \/ EditContract
  \/ Configure
  \/ UserEdits

GenSpec == GenInit /\ [][GenNext]_vars

\* ------------------------------------------------------------------------
\* Handler registrations of the 2.x bindings, with the autoCleanup option
\* ------------------------------------------------------------------------
\* the event whose listener the cleanup closure of registration id removes
TargetOf(id) == (CHOOSE u \in held : u.id = id).event

\* createHandlerBodyWriter: socket.on(name, listener) and, under autoCleanup,
\* socket.once('disconnect', cleanup)
createHandlerBodyWriter(ls, event, id) ==
  IF config.autoCleanup
    THEN SocketOn(SocketOn(ls, event, id, "standalone"), "disconnect", id, "cleanup")
    ELSE SocketOn(ls, event, id, "standalone")

\* the function a registration returns: cleanup(); socket.off('disconnect',
\* cleanup) under autoCleanup, socket.off(name, listener) otherwise and for
\* handleRpcError
UnsubscribeEffect(ls, event, id) ==
  IF config.autoCleanup /\ event # "rpcError"
    THEN SocketOff(SocketOff(ls, event, id), "disconnect", id)
    ELSE SocketOff(ls, event, id)

\* handleNotify(socket, handler), handlePing(socket, handler)
CleanupHandle ==
  \E m \in MemberNames :
    /\ nextId <= MaxRegs
    /\ listeners' = createHandlerBodyWriter(listeners, m, nextId)
    /\ held' = held \cup { [id |-> nextId, event |-> m] }
    /\ nextId' = nextId + 1
    /\ lastOp' = [op |-> "register", threw |-> FALSE]
    /\ UNCHANGED << unsubscribers, disposed, ran, disposals >>
    /\ UNCHANGED << netVars, genVars >>

\* handleRpcError(socket, handler): socket.on('rpcError', listener) only
CleanupHandleRpcError ==
  /\ nextId <= MaxRegs
  /\ listeners' = SocketOn(listeners, "rpcError", nextId, "standalone")
  /\ held' = held \cup { [id |-> nextId, event |-> "rpcError"] }
  /\ nextId' = nextId + 1
  /\ lastOp' = [op |-> "register", threw |-> FALSE]
  /\ UNCHANGED << unsubscribers, disposed, ran, disposals >>
  /\ UNCHANGED << netVars, genVars >>

\* calling the function a registration returned
CleanupUnsubscribe ==
  \E u \in held :
    /\ ran[u.id] < MaxRuns
    /\ listeners' = UnsubscribeEffect(listeners, u.event, u.id)
    /\ ran' = [ran EXCEPT ![u.id] = @ + 1]
    /\ lastOp' = [op |-> "unsubscribe", threw |-> FALSE]
    /\ UNCHANGED << nextId, unsubscribers, disposed, held, disposals >>
    /\ UNCHANGED << netVars, genVars >>

\* the socket emits 'disconnect': every once-listener of the event is taken
\* off and its cleanup runs socket.off(name, listener)
RECURSIVE RunDisconnectHooks(_, _)
RunDisconnectHooks(ls, hooks) ==
  IF hooks = << >> THEN ls
  ELSE LET h == Head(hooks)
       IN RunDisconnectHooks(
            SocketOff(SocketOff(ls, "disconnect", h.id), TargetOf(h.id), h.id),
            Tail(hooks))

SocketDisconnect ==
  /\ disposals < MaxDisposals
  /\ listeners' = RunDisconnectHooks(listeners, ListenersOf(listeners, "disconnect"))
  /\ disposals' = disposals + 1
  /\ lastOp' = [op |-> "disconnect", threw |-> FALSE]
  /\ UNCHANGED << nextId, unsubscribers, disposed, held, ran >>
  /\ UNCHANGED << netVars, genVars >>

\* bindings generated with autoCleanup (the default) or with --no-auto-cleanup
CleanupInit ==
  /\ RuntimeInit
  /\ project = EmptyProject /\ sigs = << >> /\ extracted = FALSE
  /\ walk = WalkIdle /\ typeRefs = NoTypeRefs /\ watcher = NotWatching
  /\ input = [exists |-> FALSE, client |-> FALSE, server |-> FALSE]
  /\ config \in { [hasTimeout |-> FALSE, defaultTimeout |-> 0, autoCleanup |-> b] :
                    b \in BOOLEAN }
  /\ files = NoFiles /\ exit = -1 /\ runs = 0 /\ fresh = 0

CleanupNext ==
  \/ CleanupHandle
  \/ CleanupHandleRpcError
  \/ CleanupUnsubscribe
  \/ SocketDisconnect

CleanupSpec == CleanupInit /\ [][CleanupNext]_vars

\* ------------------------------------------------------------------------
\* Properties of the call and handler bindings
\* ------------------------------------------------------------------------
\* the text of a raised condition: an Error's message, a thrown string itself
FailureText(e) == IF e.t = "Error" THEN e.message ELSE e.v

\* the ErrorValue reporting a failure with the given text
ExpectedError(text) ==
  [t |-> "object", v |-> "", message |-> text, code |-> "INTERNAL_ERROR",
   data |-> "undefined"]

\* the ErrorValue shape of the data model: message and code are text
MatchesErrorValue(x) ==
  x.t = "object" /\ IsStringField(x.message) /\ IsStringField(x.code)

\* the invocations whose listener resumes in this step
Resumed == { i \in invs : i.st = "settled" /\ i \notin invs' }

\* the invocations an event delivered in this step starts
Started == invs' \ { i \in invs' : \E j \in invs : j.lid = i.lid /\ j.n = i.n }

\* the events delivered so far
Delivered == Len(sent) - Len(wire)

\* C1: a non-void call never rejects: on timeout or transport rejection it
\* resolves with {message: text of the failure, code: 'INTERNAL_ERROR',
\* data: undefined}, otherwise it resolves with the acknowledged value
C1_CallNeverRaises ==
  \A c \in 1..Len(calls) :
    /\ calls[c].state \in {"pending", "resolved"}
    /\ (calls[c].via = "none") <=> (calls[c].state = "pending")
    /\ calls[c].via \in {"timeout", "reject"} =>
         calls[c].result = ExpectedError(FailureText(calls[c].raw))
    /\ calls[c].via = "ack" => calls[c].result = calls[c].raw

C1_Witness ==
  \E c, d \in 1..Len(calls) :
    /\ calls[c].via = "timeout" /\ calls[c].state = "resolved"
    /\ calls[d].via = "reject" /\ calls[d].raw.t = "string"

\* C2: the listener of a non-void handler invokes the user handler with the
\* event's arguments and acknowledges with its resolved value unchanged; when
\* the handler raises it acknowledges with an ErrorValue (INTERNAL_ERROR, the
\* raised text) and does not raise, and the caller resolves to what was
\* acknowledged
C2_Invoked ==
  \A i \in invs : i.args = ArgsOf(i.n) /\ i.event = sent[i.n]

C2_AckSent ==
  \A i \in Resumed :
    (i.event # "rpcError" /\ ~IsVoid(i.event)) =>
      /\ acks' \ acks =
           { [call |-> i.call,
              value |-> IF i.raised THEN ExpectedError(FailureText(i.value))
                        ELSE i.value] }
      /\ ~unhandled'

C2_AckTaken ==
  \A c \in 1..Len(calls) :
    (calls[c].state = "pending" /\ calls'[c].via = "ack") =>
      /\ calls'[c].state = "resolved"
      /\ [call |-> c, value |-> calls'[c].result] \in acks

C2_HandlerAcknowledges ==
  /\ []C2_Invoked
  /\ [][C2_AckSent]_vars
  /\ [][C2_AckTaken]_vars

C2_Witness ==
  \E c \in 1..Len(calls) :
    /\ calls[c].via = "ack"
    /\ calls[c].result = ExpectedError("boom")

\* C3: when a void handler raises, its listener publishes exactly one
\* 'rpcError' event carrying the ErrorValue of the raised condition, does not
\* raise itself and stays registered: later events still reach the handler
C3_Published ==
  \A i \in Resumed :
    (IsVoid(i.event) /\ i.raised) =>
      /\ out' = Append(out, ExpectedError(FailureText(i.value)))
      /\ ~unhandled'
      /\ listeners' = listeners

C3_StillDelivered ==
  (Len(wire') < Len(wire)) =>
    { i.lid : i \in Started } =
      { listeners[k].id : k \in { j \in 1..Len(listeners) :
                                    listeners[j].event = Head(wire).event } }

C3_VoidHandlerRaises ==
  /\ []~unhandled
  /\ [][C3_Published]_vars
  /\ [][C3_StillDelivered]_vars

C3_Witness ==
  /\ Len(sent) = 2 /\ sent[1] = "notify" /\ sent[2] = "notify"
  /\ out = << ExpectedError("bad") >>
  /\ \E i \in invs : i.n = 2 /\ i.st = "settled" /\ i.raised
  /\ ~unhandled

\* C4: a void handler's resolved value is published once on 'rpcError' when
\* it matches the ErrorValue shape, and nothing is published for any other
\* resolved value
C4_Forwarded ==
  \A i \in Resumed :
    (IsVoid(i.event) /\ ~i.raised) =>
      out' = IF MatchesErrorValue(i.value) THEN Append(out, i.value) ELSE out

C4_VoidResultForwarded == [][C4_Forwarded]_vars

\* ------------------------------------------------------------------------
\* Properties of registration and teardown
\* ------------------------------------------------------------------------
StandaloneIds == { u.id : u \in held }
FactoryIds == (1..(nextId - 1)) \ StandaloneIds

\* the n-th event was delivered and invoked no listener
InvokedNone(n) == n <= Delivered /\ \A i \in invs : i.n # n

\* C5: dispose() is idempotent: the first call marks the instance disposed
\* and runs every collected unregistration once, a later call changes nothing
C5_DisposeStep ==
  (disposals' = disposals + 1) =>
    /\ disposed'
    /\ IF disposed
         THEN /\ listeners' = listeners
              /\ unsubscribers' = unsubscribers
              /\ ran' = ran
         ELSE /\ unsubscribers' = << >>
              /\ \A id \in DOMAIN ran :
                   ran'[id] = ran[id] +
                     (IF \E k \in 1..Len(unsubscribers) : unsubscribers[k].id = id
                        THEN 1 ELSE 0)

C5_DisposeIdempotent ==
  /\ [](\A id \in FactoryIds : ran[id] <= 1)
  /\ [][C5_DisposeStep]_vars
  /\ [][disposed => disposed']_vars

C5_Witness ==
  /\ disposals = 2 /\ disposed
  /\ \E id \in FactoryIds : ran[id] = 1

\* C6: after dispose() every registration through the instance is rejected
\* and installs nothing: listeners and unsubscribers are unchanged
C6_RejectedInv == (disposed /\ lastOp.op = "handle") => lastOp.threw

C6_RejectedStep ==
  (disposed /\ lastOp'.op = "handle") =>
    /\ lastOp'.threw
    /\ listeners' = listeners
    /\ unsubscribers' = unsubscribers

C6_RegistrationBlocked == []C6_RejectedInv /\ [][C6_RejectedStep]_vars

C6_Witness ==
  /\ disposed /\ lastOp.op = "handle" /\ lastOp.threw
  /\ Len(listeners) >= 1

\* C7: after dispose() no listener registered through the instance remains on
\* the socket, and later events invoke none of them
C7_NoneLeftInv ==
  disposed => \A i \in 1..Len(listeners) : listeners[i].owner # "factory"

C7_NotInvokedStep ==
  disposed => \A i \in Started : i.lid \notin FactoryIds

C7_DisposeRemovesAll == []C7_NoneLeftInv /\ [][C7_NotInvokedStep]_vars

C7_Witness ==
  /\ disposed
  /\ \E a, b \in FactoryIds : a # b /\ ran[a] = 1 /\ ran[b] = 1
  /\ Len(sent) = 2 /\ sent[1] = sent[2]
  /\ \E i \in invs : i.n = 1 /\ i.lid \in FactoryIds
  /\ InvokedNone(2)

\* C8: a registration returns a function that removes exactly the listener
\* it installed; events no longer invoke that handler, other listeners stay
C8_Returned ==
  (lastOp'.op = "register" /\ nextId' = nextId + 1) =>
    \E u \in held' \ held :
      /\ u.id = nextId
      /\ listeners' = Append(listeners, [id |-> u.id, event |-> u.event,
                                         owner |-> "standalone"])

C8_RemovesOwn ==
  \A u \in held :
    (ran'[u.id] = ran[u.id] + 1) =>
      listeners' = SelectSeq(listeners, LAMBDA l : l.id # u.id)

C8_NotInvoked ==
  \A i \in Started : ran[i.lid] = 0

C8_ReversibleUnregistration ==
  /\ [][C8_Returned]_vars
  /\ [][C8_RemovesOwn]_vars
  /\ [][C8_NotInvoked]_vars

C8_Witness ==
  \E u \in held :
    /\ ran[u.id] >= 1
    /\ Len(sent) = 2 /\ sent[1] = u.event /\ sent[2] = u.event /\ Delivered = 2
    /\ \E i \in invs : i.n = 1 /\ i.lid = u.id
    /\ \A i \in invs : i.n = 2 => i.lid # u.id
    /\ \E i \in invs : i.n = 2

\* C9: a non-void call against a responder that never acknowledges does not
\* stay pending: once its timeout elapses it resolves to an ErrorValue
C9_CallEventuallyResolves ==
  \A c \in 1..MaxEvents :
    (Len(calls) >= c /\ calls[c].state = "pending")
      ~> (/\ Len(calls) >= c
          /\ calls[c].state = "resolved"
          /\ calls[c].via = "timeout" => calls[c].result = ExpectedError("operation has timed out"))

C9_Witness ==
  \E c \in 1..Len(calls) :
    /\ calls[c].via = "timeout" /\ calls[c].result.code = "INTERNAL_ERROR"
    /\ \E i \in invs : i.call = c /\ i.st = "awaiting"

\* ------------------------------------------------------------------------
\* Properties of the contract resolver
\* ------------------------------------------------------------------------
\* declarations reachable from the set S through extends
RECURSIVE ReachableFrom(_, _)
ReachableFrom(p, S) ==
  LET T == S \cup UNION { p.bases[i] : i \in S }
  IN IF T = S THEN S ELSE ReachableFrom(p, T)

\* names of the function-typed, valid-identifier members declared by the
\* contract or by any interface reachable from it
DeclaredNames(p, iface) ==
  { p.props[i][k].name :
      <<i, k>> \in { ik \in ReachableFrom(p, {iface}) \X (1..3) :
                       /\ ik[2] <= Len(p.props[ik[1]])
                       /\ p.props[ik[1]][ik[2]].fn
                       /\ isValidJavaScriptIdentifier(p.props[ik[1]][ik[2]].name) } }

SigNames(ss) == { ss[k].name : k \in 1..Len(ss) }

NoDuplicateNames(ss) ==
  \A j, k \in 1..Len(ss) : j # k => ss[j].name # ss[k].name

\* C10: the extracted signatures name exactly the distinct function-typed,
\* valid-identifier members of the contract and of every interface reachable
\* from it through extends, and no name occurs twice
C10_ExactUnionOfNames ==
  extracted =>
    /\ SigNames(sigs) = DeclaredNames(project, Root)
    /\ NoDuplicateNames(sigs)

\* the return-type texts the declarations of a project use
ReturnTexts(p) ==
  { p.props[i][k].ret :
      <<i, k>> \in { ik \in Ifaces \X (1..3) : ik[2] <= Len(p.props[ik[1]]) } }

\* C11: for every extracted signature, isVoid is true exactly when the
\* return-type text is the literal 'void'; 'undefined', 'Promise<void>',
\* 'void | RpcError' and 'string' all yield isVoid = FALSE
C11_IsVoidIffLiteralVoid ==
  extracted =>
    \A k \in 1..Len(sigs) :
      /\ sigs[k].returnType \in ReturnTexts(project)
      /\ sigs[k].isVoid <=> (sigs[k].returnType = "void")
      /\ sigs[k].returnType \in { "undefined", "Promise<void>",
                                  "void | RpcError", "string" } => ~sigs[k].isVoid

C11_Witness ==
  /\ extracted
  /\ \E k \in 1..Len(sigs) : sigs[k].returnType = "void" /\ sigs[k].isVoid
  /\ \E k \in 1..Len(sigs) : sigs[k].returnType = "Promise<void>" /\ ~sigs[k].isVoid
  /\ \E k \in 1..Len(sigs) : sigs[k].returnType = "undefined" /\ ~sigs[k].isVoid

\* ------------------------------------------------------------------------
\* Properties of the generator
\* ------------------------------------------------------------------------
\* the names of a sequence of signatures, call operations or registrations
NamesOf(ops) == [k \in 1..Len(ops) |-> ops[k].name]
EventsOf(regs) == [k \in 1..Len(regs) |-> regs[k].event]

\* every element of names occurs exactly once in the sequence s
ExactlyOnceEach(s, names) ==
  /\ \A k \in 1..Len(s) : s[k] \in names
  /\ \A n \in names : Cardinality({ k \in 1..Len(s) : s[k] = n }) = 1

\* the resolved members of the two contracts of the present input
ServerMembers == extractFunctionSignatures(project, Root)
ClientMembers == extractFunctionSignatures(project, ClientRoot)

\* C12: the client module has exactly one call per resolved ServerFunctions
\* member and exactly one registration per resolved ClientFunctions member
\* plus one 'rpcError' registration; the server module the reverse
C12_SurfacesMatchContracts ==
  fresh >= 1 =>
    /\ ExactlyOnceEach(NamesOf(files.client.call), SigNames(ServerMembers))
    /\ ExactlyOnceEach(EventsOf(files.client.handle),
                       SigNames(ClientMembers) \cup { RpcErrorName })
    /\ ExactlyOnceEach(NamesOf(files.server.call), SigNames(ClientMembers))
    /\ ExactlyOnceEach(EventsOf(files.server.handle),
                       SigNames(ServerMembers) \cup { RpcErrorName })

C12_Witness ==
  /\ fresh >= 1
  /\ Len(files.client.call) >= 2 /\ Len(files.server.call) >= 2
  /\ NamesOf(files.client.call) # NamesOf(files.server.call)
  /\ Len(files.client.handle) = Len(files.server.call) + 1

\* the resolved signature a generated call operation was built from
SignatureOf(members, name) ==
  members[CHOOSE k \in 1..Len(members) : members[k].name = name]

\* the shape the call of a resolved member must have
CallShapeOk(op, sig) ==
  IF sig.isVoid
    THEN /\ op.params = sig.params
         /\ op.sends = "emit"
         /\ ~op.awaitsAck
    ELSE /\ op.params = sig.params \o << "timeout" >>
         /\ op.timeoutDefault = (IF config.hasTimeout THEN config.defaultTimeout
                                 ELSE 5000)
         /\ op.sends = "emitWithAck"
         /\ op.awaitsAck

\* C13: the call shape is chosen by isVoid alone: a void member's call takes
\* the declared parameters only, emits once and awaits nothing; a non-void
\* member's call takes the declared parameters and then a timeout parameter
\* whose default is the configured defaultTimeout, 5000 when not configured
C13_CallShapeByIsVoid ==
  fresh >= 1 =>
    /\ \A k \in 1..Len(files.client.call) :
         CallShapeOk(files.client.call[k],
                     SignatureOf(ServerMembers, files.client.call[k].name))
    /\ \A k \in 1..Len(files.server.call) :
         CallShapeOk(files.server.call[k],
                     SignatureOf(ClientMembers, files.server.call[k].name))

C13_Witness ==
  /\ fresh >= 1 /\ ~config.hasTimeout
  /\ \E k \in 1..Len(files.client.call) :
       /\ files.client.call[k].timeoutDefault = 5000
       /\ files.client.call[k].params = << "msg", "timeout" >>
  /\ \E k \in 1..Len(files.server.call) :
       /\ files.server.call[k].sends = "emit"
       /\ files.server.call[k].params = << "line" >>

\* C14: a run on a missing input file, or on an input that lacks either root
\* contract, ends with a non-zero status and leaves every file of the output
\* directory as it was: nothing generated, nothing scaffolded
C14_Step ==
  (runs' = runs + 1 /\ (~input.exists \/ ~input.client \/ ~input.server)) =>
    /\ exit' # 0
    /\ files' = files

C14_FailedRunWritesNothing == [][C14_Step]_vars

C14_Witness ==
  /\ runs = 1 /\ exit = 1 /\ fresh = 0
  /\ input.exists /\ input.server /\ ~input.client
  /\ files = NoFiles

\* C15: a run never modifies a package manifest or compiler configuration
\* that exists; it writes each of them only when it is absent, and every
\* successful run rewrites the three generated modules
C15_Step ==
  (runs' = runs + 1) =>
    /\ \A f \in { "package", "tsconfig" } :
         /\ files[f].kind # "absent" => files'[f] = files[f]
         /\ (files[f].kind = "absent" /\ exit' = 0) => files'[f].kind = "generated"
    /\ exit' = 0 =>
         \A m \in ModuleNames :
           files'[m] = RunEffect(input, project, config, NoFiles).files[m]

C15_ScaffoldOnce == [][C15_Step]_vars

C15_Witness ==
  /\ runs = 2 /\ fresh = 2
  /\ files.package = UserText
  /\ files.tsconfig.kind = "generated"
  /\ files.client.kind = "generated"

\* C16: a successful run on the contract and configuration of the previous
\* successful run leaves the three generated modules exactly as they were
C16_Step ==
  (runs' = runs + 1 /\ fresh >= 1) =>
    /\ exit' = 0
    /\ \A m \in ModuleNames : files'[m] = files[m]

HandlerListeners(ls) == SelectSeq(ls, LAMBDA l : l.owner = "standalone")

\* when the socket emits 'disconnect', no listener installed by a handler
\* registration stays on the socket
C17_DisconnectStep ==
  (config.autoCleanup /\ lastOp'.op = "disconnect" /\ disposals' = disposals + 1) =>
    HandlerListeners(listeners') = << >>

\* a returned unsubscribe function takes off its listener and its hook
C17_UnsubscribeStep ==
  \A u \in held :
    (config.autoCleanup /\ ran'[u.id] = ran[u.id] + 1) =>
      /\ FirstIndex(listeners', u.event, u.id, 1) = 0
      /\ FirstIndex(listeners', "disconnect", u.id, 1) = 0

\* C17: with auto-cleanup enabled, the 'disconnect' event removes every
\* listener a handler registration installed, and an unsubscribe function
\* called before it removes its listener together with its disconnect hook
C17_AutoCleanup == [][C17_DisconnectStep /\ C17_UnsubscribeStep]_vars

\* the proper ancestors of declaration d: reachable from its bases through
\* extends, and not themselves extending d
Ancestors(p, d) ==
  IF p.bases[d] = {} THEN {}
  ELSE { a \in ReachableFrom(p, p.bases[d]) :
           /\ a # d
           /\ p.bases[a] # {} => d \notin ReachableFrom(p, p.bases[a]) }

\* the function-typed, valid-identifier members declaration i declares
MembersOf(p, i) ==
  { p.props[i][k] : k \in { j \in 1..Len(p.props[i]) :
                              /\ p.props[i][j].fn
                              /\ isValidJavaScriptIdentifier(p.props[i][j].name) } }

\* the resolved signature of a name is the one declaration a gives it
ResolvedAs(ss, m) ==
  \E k \in 1..Len(ss) :
    /\ ss[k].name = m.name
    /\ ss[k].params = m.params
    /\ ss[k].returnType = m.ret
    /\ ss[k].isVoid = (m.ret = "void")

\* C18: whenever an interface of the extension chain redeclares a member
\* name that one of its direct or indirect ancestors declares, the resolved
\* signature of that name is the ancestor's declaration
C18_AncestorWins ==
  extracted =>
    \A d \in ReachableFrom(project, {Root}) :
      \A a \in Ancestors(project, d) :
        \A md \in MembersOf(project, d) :
          \A ma \in MembersOf(project, a) :
            md.name = ma.name => ResolvedAs(sigs, ma)

\* the interface names whose base types the walk has read more than once
ExpandedTwice(w) ==
  { w.expanded[j] : j \in { i \in 1..Len(w.expanded) :
                              \E k \in 1..Len(w.expanded) :
                                k # i /\ w.expanded[k] = w.expanded[i] } }

Resolves(c) == calls[c].state = "pending" /\ calls'[c].state = "resolved"

\* what resolves call c is its own acknowledgment, its own timeout or the
\* failure of its own emit
C20_OwnOutcome(c) ==
  \/ /\ calls'[c].via = "ack"
     /\ \E k \in acks \ acks' : k.call = c /\ calls'[c].result = k.value
  \/ /\ calls'[c].via = "timeout"
     /\ calls[c].left = 0
     /\ calls'[c].result = createRpcErrorExpression(TimedOut)
  \/ /\ calls'[c].via = "reject"
     /\ acks' = acks

C20_Step ==
  \A c \in 1..Len(calls) :
    /\ calls[c].state = "resolved" => calls'[c] = calls[c]
    /\ Resolves(c) =>
         /\ C20_OwnOutcome(c)
         /\ \A d \in 1..Len(calls) : d # c => calls'[d] = calls[d]

\* C20: concurrent non-void calls are tracked independently: a call is
\* resolved once, by its own acknowledgment or its own timeout (or the
\* failure of its own emit), whichever comes first; what resolves one call
\* changes no other call, and an acknowledgment that arrives after its call
\* has resolved leaves the call's result as it is
C20_CallsIndependent == [][C20_Step]_vars

\* two calls in flight together: the second has taken its acknowledgment
\* while the first, whose acknowledgment is still under way, is pending
C20_Witness ==
  /\ Len(calls) = 2
  /\ calls[1].state = "pending"
  /\ calls[2].via = "ack" /\ calls[2].state = "resolved"
  /\ \E k \in acks : k.call = 1

\* the acknowledgment-callback invocations the listener of a settled
\* invocation makes when it resumes
CallbackInvocations(i) == AckListener(i.raised, i.value, i.fails).cbs

\* a resuming acknowledgment listener invokes its callback once: with the
\* handler's result, or with the ErrorValue of what the handler raised
C21_Step ==
  \A i \in invs \ invs' :
    (i.st = "settled" /\ i.event # "rpcError" /\ ~IsVoid(i.event)) =>
      /\ Len(CallbackInvocations(i)) = 1
      /\ CallbackInvocations(i)[1] =
           (IF i.raised THEN createRpcErrorExpression(i.value) ELSE i.value)

\* C21: for each incoming non-void event, each listener invokes the
\* acknowledgment callback exactly once after the user handler settles,
\* with the result or with an ErrorValue, and never more than once, also
\* when delivering the acknowledgment itself fails
C21_CallbackOnce == [][C21_Step]_vars

\* the listeners on the socket that the factory instance installed
FactoryListeners(ls) == SelectSeq(ls, LAMBDA l : l.owner = "factory")

\* while the instance is live every collected unregistration stands for one
\* listener it installed that is still on the socket, and the other way
\* round; once it is disposed the collection is empty
C22_Registry ==
  IF disposed
    THEN unsubscribers = << >>
    ELSE /\ \A j, k \in 1..Len(unsubscribers) :
              j # k => unsubscribers[j].id # unsubscribers[k].id
         /\ \A k \in 1..Len(unsubscribers) :
              \E i \in 1..Len(listeners) :
                /\ listeners[i].owner = "factory"
                /\ listeners[i].id = unsubscribers[k].id
                /\ listeners[i].event = unsubscribers[k].event
         /\ Len(FactoryListeners(listeners)) = Len(unsubscribers)

\* a successful registration through the instance adds one unregistration,
\* nothing else changes their number while the instance is live, and the
\* disposed flag never returns to false
C22_Step ==
  /\ disposed => disposed'
  /\ ~disposed' =>
       Len(unsubscribers') =
         Len(unsubscribers) +
           (IF Len(FactoryListeners(listeners')) > Len(FactoryListeners(listeners))
              THEN 1 ELSE 0)
  /\ (~disposed /\ lastOp'.op = "handle" /\ ~lastOp'.threw /\ nextId' = nextId + 1
        /\ Len(listeners') = Len(listeners) + 1
        /\ listeners'[Len(listeners')].owner = "factory") =>
       Len(unsubscribers') = Len(unsubscribers) + 1

\* C22: while a factory instance is not disposed, its collected
\* unregistrations are as many as the successful registrations made through
\* it and each stands for one listener it installed that is still on the
\* socket; once disposed, the collection is empty and stays empty, and the
\* disposed flag never returns to false
C22_RegistryInvariant == [](C22_Registry) /\ [][C22_Step]_vars

\* two registrations were made through the instance, it was disposed, and a
\* further registration was refused
C22_Witness ==
  /\ disposed /\ unsubscribers = << >>
  /\ nextId = 3 /\ held = {} /\ listeners = << >>
  /\ lastOp.op = "handle" /\ lastOp.threw

\* what the listener of invocation i owes once the user handler has settled
C23_Completes(i) ==
  IF IsVoid(i.event)
    THEN /\ i.raised => out' = Append(out, ExpectedError(FailureText(i.value)))
         /\ (~i.raised /\ VoidResultIsError(i.value)) => out' = Append(out, i.value)
    ELSE [call |-> i.call,
          value |-> IF i.raised THEN ExpectedError(FailureText(i.value))
                    ELSE i.value] \in acks'

\* an invocation of a disposed instance's listener still runs to its end,
\* and an event delivered after dispose() starts none
C23_Step ==
  /\ \A i \in Resumed :
       (disposed /\ i.owner = "factory" /\ i.event # "rpcError") => C23_Completes(i)
  /\ disposed => \A i \in Started : i.owner # "factory"

\* C23: dispose() does not cancel an invocation that is awaiting the user
\* handler: when the handler settles the listener still acknowledges
\* (non-void) or publishes its failure notification (void); only events
\* that arrive after dispose() no longer reach the instance's handlers
C23_DisposeKeepsRunning == [][C23_Step]_vars

\* the instance was disposed while a non-void and a void invocation of its
\* listeners were awaiting their handlers
C23_Witness ==
  /\ disposed
  /\ \E i \in invs : i.st = "awaiting" /\ i.owner = "factory" /\ ~IsVoid(i.event)
  /\ \E i \in invs : i.st = "awaiting" /\ i.owner = "factory" /\ IsVoid(i.event)

\* the listeners other than the given ones, in registration order
OtherListeners(ls, ids) == SelectSeq(ls, LAMBDA l : l.id \notin ids)

\* dispose() leaves every listener the instance did not install where it
\* is, and the function a registration returned leaves every listener but
\* its own
C24_FrameStep ==
  /\ (disposals' = disposals + 1) =>
       OtherListeners(listeners', FactoryIds) = OtherListeners(listeners, FactoryIds)
  /\ \A u \in held :
       (ran'[u.id] = ran[u.id] + 1) =>
         OtherListeners(listeners', { u.id }) = OtherListeners(listeners, { u.id })

\* an event invokes every listener of its name that is on the socket
C24_DeliveredStep ==
  (Len(wire') < Len(wire)) =>
    \A k \in 1..Len(listeners) :
      listeners[k].event = Head(wire).event =>
        \E i \in Started : i.lid = listeners[k].id /\ i.n = Head(wire).n

\* C24: dispose() and an individual unregistration remove only the
\* listeners of that instance or registration; listeners that others
\* registered on the same socket for the same event names stay registered
\* and keep receiving events
C24_OnlyOwnListeners == [][C24_FrameStep /\ C24_DeliveredStep]_vars

\* an event reached the instance's listener and another registration's
\* listener of the same name; after dispose() the next event of that name
\* reached the other listener alone
C24_Witness ==
  /\ disposed
  /\ \E f \in FactoryIds, o \in StandaloneIds :
       /\ \E i \in invs : i.n = 1 /\ i.lid = f
       /\ \E i \in invs : i.n = 1 /\ i.lid = o
       /\ \E i \in invs : i.n = 2 /\ i.lid = o
       /\ \A i \in invs : i.n = 2 => i.lid = o
       /\ ran[f] = 1 /\ ran[o] = 0

\* a resolved void result is published exactly when the type guard holds
C25_Step ==
  \A i \in Resumed :
    (i.event # "rpcError" /\ IsVoid(i.event) /\ ~i.raised) =>
      /\ isRpcError(i.value) <=> (out' = Append(out, i.value))
      /\ ~isRpcError(i.value) <=> (out' = out)

\* C25: the test the void-handler listener applies to a handler result
\* agrees with the emitted isRpcError guard for every result value: the
\* result is published on 'rpcError' if and only if isRpcError(result)
C25_ShapeTestAgrees == [][C25_Step]_vars

\* the function-typed members of declaration i whose name is no identifier
InvalidMembers(p, i) ==
  { p.props[i][k] : k \in { j \in 1..Len(p.props[i]) :
                              /\ p.props[i][j].fn
                              /\ ~isValidJavaScriptIdentifier(p.props[i][j].name) } }

\* the project without those members
WithoutInvalidMembers(p) ==
  [p EXCEPT !.props =
     [i \in DOMAIN p.props |->
        SelectSeq(p.props[i], LAMBDA m : m \notin InvalidMembers(p, i))]]

\* C26: a member whose name is not a valid identifier does not abort the
\* run: it yields no signature, every other member of the contract and of
\* its ancestors is resolved as it is without that member, and the run
\* completes with the modules of the remaining members
C26_InvalidMemberSkipped ==
  fresh >= 1 =>
    /\ exit = 0
    /\ \A k \in 1..Len(ServerMembers) :
         isValidJavaScriptIdentifier(ServerMembers[k].name)
    /\ \A k \in 1..Len(ClientMembers) :
         isValidJavaScriptIdentifier(ClientMembers[k].name)
    /\ ServerMembers = extractFunctionSignatures(WithoutInvalidMembers(project), Root)
    /\ ClientMembers = extractFunctionSignatures(WithoutInvalidMembers(project), ClientRoot)
    /\ \A m \in ModuleNames :
         files[m] = RunEffect(input, WithoutInvalidMembers(project), config, NoFiles).files[m]

\* a run has completed on a contract one of whose ancestors declares an
\* invalid name between other members, and the member after it has its call
C26_Witness ==
  /\ fresh >= 1
  /\ \E a \in ReachableFrom(project, {Root}) : InvalidMembers(project, a) # {}
  /\ \E k \in 1..Len(files.client.call) : files.client.call[k].name = Status

\* ---------------------------------------------------------------------------
\* Type-reference resolution: addCustomTypeImports
\* ---------------------------------------------------------------------------

\* the names extractTypeNames can hand over: two user types, one built-in
TypeNames == {"User", "Order", "Promise"}

\* the names addCustomTypeImports filters out
BuiltInTypes ==
  {"string", "number", "boolean", "void", "any", "unknown", "object", "Array",
   "Promise", "Error"}

\* source files are numbered; file 1 is the input file, whose base name is
\* inputFilename; two files in different directories can share a base name
EntryFile == 1
InputFilename == "define"
BaseNames == {"types", "models"}

\* the acyclic import graphs over n source files: each file's base name, the
\* type names it declares or exports, and the files it imports directly
SourceGraphs(n) ==
  { [base |-> b, declares |-> d, imports |-> m] :
      b \in { f \in [1..n -> BaseNames \cup {InputFilename}] :
                /\ f[EntryFile] = InputFilename
                /\ \A i \in 2..n : f[i] \in BaseNames },
      d \in [1..n -> SUBSET (TypeNames \ BuiltInTypes)],
      m \in { f \in [1..n -> SUBSET (1..n)] : \A i \in 1..n : \A j \in f[i] : j > i } }

\* exportedTypes.has(type) || file.getTypeAlias(type) || file.getInterface(type)
DeclaredIn(g, f, types) == { t \in types : t \in g.declares[f] }

\* inputFile.getReferencedSourceFiles(): the files the input file imports
\* directly, in the order of their import declarations
getReferencedSourceFiles(g, f) == InOrder(g.imports[f])

\* typesByFile.set(filename, types): a Map keeps one entry per key, and a
\* second set() under the same key replaces the value in place
MapSet(m, filename, types) ==
  IF \E k \in 1..Len(m) : m[k].file = filename
  THEN [k \in 1..Len(m) |->
          IF m[k].file = filename THEN [file |-> filename, types |-> types] ELSE m[k]]
  ELSE Append(m, [file |-> filename, types |-> types])

\* the loop over the referenced files: every file takes the remaining names it
\* declares, and the loop ends once nothing remains
RECURSIVE CheckImportedFiles(_, _, _, _)
CheckImportedFiles(g, refs, typesByFile, remaining) ==
  IF refs = << >> \/ remaining = {} THEN typesByFile
  ELSE LET refFile == Head(refs)
           foundTypes == DeclaredIn(g, refFile, remaining)
       IN IF foundTypes # {}
          THEN CheckImportedFiles(g, Tail(refs),
                                  MapSet(typesByFile, g.base[refFile], foundTypes),
                                  remaining \ foundTypes)
          ELSE CheckImportedFiles(g, Tail(refs), typesByFile, remaining)

\* addCustomTypeImports: the import declarations added to a generated module,
\* one per entry of typesByFile
addCustomTypeImports(g, usedTypes) ==
  LET customTypes == usedTypes \ BuiltInTypes
      inputFileTypes == DeclaredIn(g, EntryFile, customTypes)
      first == IF inputFileTypes # {}
               THEN MapSet(<< >>, g.base[EntryFile], inputFileTypes)
               ELSE << >>
      typesByFile ==
        CheckImportedFiles(g, getReferencedSourceFiles(g, EntryFile), first,
                           customTypes \ inputFileTypes)
  IN IF customTypes = {} THEN << >>
     ELSE [k \in 1..Len(typesByFile) |->
             [moduleSpecifier |-> typesByFile[k].file,
              namedImports |-> typesByFile[k].types,
              isTypeOnly |-> TRUE]]

\* generateSideFile reaches addCustomTypeImports with the type names of both
\* contracts' signatures
AddCustomTypeImports ==
  /\ ~typeRefs.done
  /\ typeRefs' = [typeRefs EXCEPT
                    !.imports = addCustomTypeImports(typeRefs.graph, typeRefs.used),
                    !.done = TRUE]
  /\ UNCHANGED << project, sigs, extracted, walk, watcher, input, config, files, exit, runs,
                  fresh >>
  /\ UNCHANGED << apiVars, netVars >>

ImportInit ==
  /\ RuntimeInit
  /\ project = EmptyProject /\ sigs = << >> /\ extracted = FALSE
  /\ walk = WalkIdle /\ watcher = NotWatching
  /\ input = [exists |-> FALSE, client |-> FALSE, server |-> FALSE]
  /\ config = [hasTimeout |-> FALSE, defaultTimeout |-> 0]
  /\ files = NoFiles
  /\ exit = -1 /\ runs = 0 /\ fresh = 0
  /\ typeRefs \in { [graph |-> g, used |-> u, imports |-> << >>, done |-> FALSE] :
                      g \in SourceGraphs(MaxFiles), u \in SUBSET TypeNames }

ImportNext == AddCustomTypeImports

ImportSpec == ImportInit /\ [][ImportNext]_vars

\* the files addCustomTypeImports looks into, in the order it looks
SearchedFiles(g) == << EntryFile >> \o getReferencedSourceFiles(g, EntryFile)

\* the files reachable from file f along import declarations
RECURSIVE FilesReachableFrom(_, _)
FilesReachableFrom(g, f) ==
  g.imports[f] \cup UNION { FilesReachableFrom(g, j) : j \in g.imports[f] }

\* the imports of the generated module that name type t
ImportsNaming(t) ==
  { k \in 1..Len(typeRefs.imports) : t \in typeRefs.imports[k].namedImports }

\* C27: every used type name that is not built in and that a searched file
\* declares appears in exactly one generated import, which is type-only and
\* names the entry file if it declares the name and otherwise the first
\* imported file that declares it; built-in names and names no searched file
\* declares appear in no import
C27_OneImportPerType ==
  typeRefs.done =>
    LET g == typeRefs.graph
        searched == SearchedFiles(g)
        Declaring(t) == { n \in 1..Len(searched) : t \in g.declares[searched[n]] }
        Owner(t) == searched[CHOOSE n \in Declaring(t) : \A o \in Declaring(t) : n <= o]
    IN \A t \in typeRefs.used :
         IF t \notin BuiltInTypes /\ Declaring(t) # {}
         THEN /\ Cardinality(ImportsNaming(t)) = 1
              /\ \A k \in ImportsNaming(t) :
                    /\ typeRefs.imports[k].moduleSpecifier = g.base[Owner(t)]
                    /\ typeRefs.imports[k].isTypeOnly
         ELSE ImportsNaming(t) = {}

\* C28: a used type name declared only in a file the entry file reaches
\* through another imported file appears in a type-only import of the
\* generated module that names that file
C28_TransitiveTypeImported ==
  typeRefs.done =>
    LET g == typeRefs.graph
        searched == SearchedFiles(g)
        direct == { searched[n] : n \in 1..Len(searched) }
    IN \A t \in typeRefs.used \ BuiltInTypes :
         \A f \in FilesReachableFrom(g, EntryFile) \ direct :
           (/\ t \in g.declares[f]
            /\ \A o \in 1..Len(g.base) : o # f => t \notin g.declares[o])
           => \E k \in ImportsNaming(t) :
                /\ typeRefs.imports[k].moduleSpecifier = g.base[f]
                /\ typeRefs.imports[k].isTypeOnly


\* ---------------------------------------------------------------------------
\* Watch mode: watchMode(config)
\* ---------------------------------------------------------------------------

\* generateRpcPackage up to its `await outputProject.save()`: the input is
\* validated, the contracts are read, the package is scaffolded and the three
\* modules are built in memory; a missing input or contract ends the process
RunBegins(inp, p, userConfig, fs) ==
  LET e == RunEffect(inp, p, userConfig, fs)
  IN IF e.exit = 1 THEN [exit |-> 1, files |-> fs, pending |-> << >>]
     ELSE [exit |-> 0,
           files |-> ensurePackageStructure(fs, resolveConfig(userConfig)),
           pending |-> << [f \in ModuleNames |-> e.files[f]] >>]

\* outputProject.save() of one run: the three modules reach the disk
Saved(fs, modules) == [f \in FileNames |-> IF f \in ModuleNames THEN modules[f] ELSE fs[f]]

\* the sequence without its k-th element
WithoutIndex(q, k) == SubSeq(q, 1, k - 1) \o SubSeq(q, k + 1, Len(q))

\* `await generateRpcPackage(config)` at the start of watchMode
InitialGeneration ==
  /\ watcher.st = "starting"
  /\ runs = 0
  /\ runs' = 1
  /\ LET b == RunBegins(input, project, config, files)
     IN /\ files' = b.files
        /\ exit' = IF b.exit = 1 THEN 1 ELSE exit
        /\ watcher' = [watcher EXCEPT
                         !.st = IF b.exit = 1 THEN "exited" ELSE @,
                         !.saving = b.pending]
  /\ UNCHANGED << project, sigs, extracted, walk, typeRefs, input, config, fresh >>
  /\ UNCHANGED << apiVars, netVars >>

\* the save of a run that is under way completes; once the initial run is
\* through, watchMode installs fs.watchFile and the SIGINT handler
SaveCompletes ==
  \E k \in 1..Len(watcher.saving) :
    /\ watcher.st \in { "starting", "watching" }
    /\ files' = Saved(files, watcher.saving[k])
    /\ watcher' = [watcher EXCEPT
                     !.st = "watching",
                     !.saving = WithoutIndex(@, k)]
    /\ UNCHANGED << project, sigs, extracted, walk, typeRefs, input, config, exit, runs,
                    fresh >>
    /\ UNCHANGED << apiVars, netVars >>

\* the user saves, rewrites or removes the input file; fs.watchFile sees the
\* change at its next poll when it is installed
TouchInput ==
  /\ watcher.st \in { "starting", "watching" }
  /\ \/ \E i \in Inputs \ {input} : input' = i /\ project' = project
     \/ \E p \in GenProjects \ {project} : project' = p /\ input' = input
  /\ watcher' = [watcher EXCEPT !.changed = @ \/ watcher.st = "watching"]
  /\ UNCHANGED << sigs, extracted, walk, typeRefs, config, files, exit, runs, fresh >>
  /\ UNCHANGED << apiVars, netVars >>

\* the fs.watchFile callback: it starts generateRpcPackage, whose failures end
\* in process.exit(1) before the callback's own catch can see them
ChangeNotified ==
  /\ watcher.st = "watching"
  /\ watcher.changed
  /\ runs < MaxWatchRuns
  /\ runs' = runs + 1
  /\ LET b == RunBegins(input, project, config, files)
     IN /\ files' = b.files
        /\ exit' = IF b.exit = 1 THEN 1 ELSE exit
        /\ watcher' = [watcher EXCEPT
                         !.st = IF b.exit = 1 THEN "exited" ELSE @,
                         !.changed = FALSE,
                         !.failed = @ \/ b.exit = 1,
                         !.saving = @ \o b.pending]
  /\ UNCHANGED << project, sigs, extracted, walk, typeRefs, input, config, fresh >>
  /\ UNCHANGED << apiVars, netVars >>

\* process.on("SIGINT"): unwatch and exit with status 0
Sigint ==
  /\ watcher.st = "watching"
  /\ watcher' = [watcher EXCEPT !.st = "exited"]
  /\ exit' = 0
  /\ UNCHANGED << project, sigs, extracted, walk, typeRefs, input, config, files, runs,
                  fresh >>
  /\ UNCHANGED << apiVars, netVars >>

WatchInit ==
  /\ RuntimeInit
  /\ project \in GenProjects
  /\ sigs = << >> /\ extracted = FALSE
  /\ walk = WalkIdle /\ typeRefs = NoTypeRefs
  /\ watcher = [NotWatching EXCEPT !.st = "starting"]
  /\ input \in Inputs
  /\ config \in Configs
  /\ files = NoFiles
  /\ exit = -1 /\ runs = 0 /\ fresh = 0

WatchNext ==
  \/ InitialGeneration
  \/ SaveCompletes
  \/ TouchInput
  \/ ChangeNotified
  \/ Sigint

WatchSpec == WatchInit /\ [][WatchNext]_vars

\* C29: in watch mode at most one generation run is between its start and the
\* end of its write phase
C29_RunsSerialized == Len(watcher.saving) <= 1

\* C30: a regeneration that fails in watch mode leaves the watcher running
C30_Step ==
  (watcher.st = "watching" /\ ~watcher.failed /\ watcher'.failed)
    => watcher'.st = "watching"

C30_WatcherSurvivesFailure == [][C30_Step]_vars

====
